---- MODULE Spec2Model ----
(***************************************************************************)
(* I Spy a Shape: the round generator (generateGameShapes), the click      *)
(* handler (handleShapeClick), the motion loop (startMovingShapes), the    *)
(* countdown, the high-score store and the screens that drive them.        *)
(*                                                                         *)
(* Lengths are integers counted in 1/20 pixel (U units): 0.75 * size and   *)
(* board / 2 need quarters, the hard speeds 0.05..0.15 need twentieths.    *)
(* Math.random() is a value in thousandths read from a cyclic tape that    *)
(* the caller draws from Tapes; every call site consumes the tape in the   *)
(* order the code calls Math.random().                                     *)
(***************************************************************************)
EXTENDS Integers, Sequences, FiniteSets, TLC

VARIABLES
    currentDifficulty,  \* gameState.currentDifficulty
    currentMode,        \* gameState.currentMode
    shapesQuantity,     \* gameState.shapesQuantity
    score,              \* gameState.score
    attemptsLeft,       \* gameState.attemptsLeft
    targetShape,        \* gameState.targetShape
    targetColor,        \* gameState.targetColor
    shapes,             \* gameState.shapes
    gameOver,           \* gameState.gameOver
    timeRemaining,      \* gameState.timeRemaining
    timerInterval,      \* gameState.timerInterval (an interval id or 0 for null)
    animationFrameId,   \* gameState.animationFrameId (a frame id or 0 for null)
    board,              \* <<clientWidth, clientHeight>> of elements.gameBoard, in px
    innerWidth,         \* window.innerWidth, in px
    setupModal,         \* the setup modal is shown
    gameOverScreen,     \* the game-over screen is shown
    endGameDialog,      \* the quit confirmation dialog is shown
    dom,                \* the shape elements appended to the board, each bound to its shape
    timeouts,           \* pending setTimeout callbacks, in creation order
    intervals,          \* ids of the setInterval countdowns that are running
    frames,             \* ids of the requestAnimationFrame callbacks that are pending
    storage,            \* localStorage: the classic, timed and legacy high-score lists
    roundColors,        \* the palette of the last generateGameShapes call on this board
    lastGen,            \* that call: its arguments, its tape and how it ended
    frameCount,         \* animation frames run since the board was last cleared
    tickCount,          \* countdown ticks run in the current game
    lastClick,          \* the last click handleShapeClick judged in this round
    playerName,         \* gameState.playerName
    highScores,         \* gameState.highScores, the in-memory lists per difficulty
    confettiAnimationId,\* gameState.confettiAnimationId, 0 for null
    confettiLaunches,   \* the launchConfetti calls a frame or a safety timeout still refers to
    confettiHidden      \* elements.confettiCanvas carries the class hidden

vars == <<currentDifficulty, currentMode, shapesQuantity, score, attemptsLeft,
          targetShape, targetColor, shapes, gameOver, timeRemaining, timerInterval,
          animationFrameId, board, innerWidth, setupModal, gameOverScreen,
          endGameDialog, dom, timeouts, intervals, frames, storage, roundColors,
          lastGen, frameCount, tickCount, lastClick, playerName, highScores,
          confettiAnimationId, confettiLaunches, confettiHidden>>

-----------------------------------------------------------------------------
(* Units and bounds *)

U == 4 * 5                  \* units per pixel
Px(n) == n * U

TapeLen == 3                \* period of the Math.random() tape of one call
RandVals == {0, 450, 999}   \* Math.random() outcomes explored, in thousandths
Tapes == [1..TapeLen -> RandVals]

MaxScore == 2               \* correct clicks explored in one game
MaxTicks == 2               \* countdown ticks explored in one game
MaxFrames == 2              \* animation frames explored on one set of shapes
MaxPending == 1             \* setTimeout callbacks of the current game pending at once
MaxStale == 1               \* callbacks of ended games still pending
MaxSaved == 1               \* high scores stored, after which Spec sets up no game
MaxLaunches == 2            \* confetti launches with a frame or safety timeout pending

Null == "null"

Max(a, b) == IF a >= b THEN a ELSE b
Min(a, b) == IF a <= b THEN a ELSE b

-----------------------------------------------------------------------------
(* gameConfig *)

maxAttempts == 3
successDelay == 800
basicShapes == <<"circle", "square", "triangle", "rectangle">>
mediumShapes == <<"pentagon", "hexagon", "oval", "diamond">>
hardShapes == <<"octagon", "star", "heart", "trapezoid">>
colors == <<"#FF6B6B", "#4ECDC4", "#FFD166", "#FF8C42",
            "#6A4C93", "#F72585", "#4CC9F0", "#8AC926">>

Difficulties == {"easy", "medium", "hard"}
Modes == {"classic", "timed"}

difficulty == [
    easy   |-> [shapesCount |-> [min |-> 4, max |-> 8], timeLimit |-> 90,
                timeBonus |-> [correct |-> 5, colorMatch |-> 8], timePenalty |-> 3,
                distinctColors |-> TRUE, movementSpeed |-> [min |-> 0, max |-> 0]],
    medium |-> [shapesCount |-> [min |-> 6, max |-> 12], timeLimit |-> 60,
                timeBonus |-> [correct |-> 3, colorMatch |-> 5], timePenalty |-> 5,
                distinctColors |-> FALSE, movementSpeed |-> [min |-> 0, max |-> 0]],
    hard   |-> [shapesCount |-> [min |-> 10, max |-> 18], timeLimit |-> 45,
                timeBonus |-> [correct |-> 2, colorMatch |-> 3], timePenalty |-> 7,
                distinctColors |-> FALSE,
                \* 0.05 and 0.15 px per frame
                movementSpeed |-> [min |-> 1, max |-> 3]]]

-----------------------------------------------------------------------------
(* utils.js *)

\* The n-th Math.random() of a call (n counts from 0), in thousandths.
Rnd(tape, n) == tape[(n % Len(tape)) + 1]

\* array[Math.floor(Math.random() * array.length)]
getRandomItem(array, r) == array[((r * Len(array)) \div 1000) + 1]

\* Math.floor(Math.random() * (max - min + 1)) + min, min and max in units:
\* the floor counts whole pixels, so the result is min plus whole pixels.
getRandomNumber(min, max, r) == U * ((r * (max - min + U)) \div (1000 * U)) + min

Swap(array, i, j) ==
    [n \in DOMAIN array |-> IF n = i THEN array[j] ELSE IF n = j THEN array[i] ELSE array[n]]

\* Fisher-Yates from the last element down; i is the 1-based index being placed.
RECURSIVE ShuffleFrom(_, _, _, _)
ShuffleFrom(array, i, tape, k) ==
    IF i <= 1 THEN array
    ELSE ShuffleFrom(Swap(array, i, ((Rnd(tape, k) * i) \div 1000) + 1), i - 1, tape, k + 1)

shuffleArray(array, tape, k) == ShuffleFrom(array, Len(array), tape, k)

\* Math.random() calls one shuffleArray makes.
ShuffleDraws(array) == IF Len(array) > 1 THEN Len(array) - 1 ELSE 0

Includes(array, v) == \E n \in DOMAIN array : array[n] = v

\* do { v = getRandomItem(array) } while (v === avoid). On a cyclic tape the loop
\* either ends within Len(tape) draws or never: ok tells which.
RECURSIVE DoWhileItem(_, _, _, _, _)
DoWhileItem(array, avoid, tape, k, fuel) ==
    LET v == getRandomItem(array, Rnd(tape, k))
    IN  IF v # avoid THEN [val |-> v, k |-> k + 1, ok |-> TRUE]
        ELSE IF fuel <= 1 THEN [val |-> v, k |-> k + 1, ok |-> FALSE]
        ELSE DoWhileItem(array, avoid, tape, k + 1, fuel - 1)

-----------------------------------------------------------------------------
(* gameLogic.js: getAvailableShapes, applyDifficultySettings *)

getAvailableShapes(diff) ==
    basicShapes
    \o (IF diff \in {"medium", "hard"} THEN mediumShapes ELSE <<>>)
    \o (IF diff = "hard" THEN hardShapes ELSE <<>>)

applyDifficultySettings(diff, quantity) ==
    IF quantity < difficulty[diff].shapesCount.min THEN difficulty[diff].shapesCount.min
    ELSE IF quantity > difficulty[diff].shapesCount.max THEN difficulty[diff].shapesCount.max
    ELSE quantity

-----------------------------------------------------------------------------
(* gameLogic.js: generateGameShapes.  A shape is                            *)
(* [type, color, size, isMatch, x, y, vx, vy]; rotation and zIndex are      *)
(* drawn (their Math.random() calls consume the tape) but not kept.         *)

\* <<minSize, maxSize>> in px; the <= 480 branch is shadowed by <= 768.
SizeRange(iw) ==
    IF iw > 1200 THEN <<75, 120>>
    ELSE IF iw <= 768 THEN <<50, 85>>
    ELSE IF iw <= 480 THEN <<40, 70>>
    ELSE <<60, 100>>

\* The count without the cap by the board's area.
AdjustedCount_NoAreaCap(count, bw, bh) == Max(5, count)

\* Math.max(5, Math.min(count, Math.floor(boardArea / 20000)))
AdjustedCount(count, bw, bh) == Max(5, Min(count, (bw * bh) \div 20000))

\* Math.max(maxSize * 1.5, 150), in units
GridCellSize(maxSize) == Max((3 * Px(maxSize)) \div 2, Px(150))

\* The grid cells in row-major order, before the shuffle.
GridCells(bw, bh, cellSize) ==
    LET cols == Px(bw) \div cellSize
        rows == Px(bh) \div cellSize
    IN  [n \in 1..(rows * cols) |->
            [x |-> ((n - 1) % cols) * cellSize, y |-> ((n - 1) \div cols) * cellSize,
             width |-> cellSize, height |-> cellSize]]

\* The palette without putting the target colour back after the cut.
RoundPalette_NoReinsert(diff, count, tcolor, tape, k) ==
    LET all == IF Includes(colors, tcolor) THEN colors ELSE Append(colors, tcolor)
    IN  IF ~difficulty[diff].distinctColors THEN all
        ELSE SubSeq(shuffleArray(all, tape, k), 1, Min(count + 1, Len(all)))

\* The palette: all colours, the target colour added when missing; under
\* distinctColors shuffled, cut to count + 1 and the target colour put back.
RoundPalette(diff, count, tcolor, tape, k) ==
    LET all == IF Includes(colors, tcolor) THEN colors ELSE Append(colors, tcolor)
        cut == SubSeq(shuffleArray(all, tape, k), 1, Min(count + 1, Len(all)))
    IN  IF ~difficulty[diff].distinctColors THEN all
        ELSE IF Includes(cut, tcolor) THEN cut
        ELSE [cut EXCEPT ![1] = tcolor]

PaletteDraws(diff, tcolor) ==
    IF difficulty[diff].distinctColors
    THEN ShuffleDraws(IF Includes(colors, tcolor) THEN colors ELSE Append(colors, tcolor))
    ELSE 0

\* isMatch as the generator computes it.
GenIsMatch(diff, type, color, target, tcolor) ==
    IF diff = "easy" THEN type = target
    ELSE type = target /\ color = tcolor

\* Type and colour of a shape that is not the forced first one.  early is
\* i < adjustedCount / 3 (always FALSE in the fallback loop).
RandomShapeChoice(early, k, cma, c) ==
    LET decoy == IF early THEN TRUE ELSE Rnd(c.tape, k) < 700
        k1 == IF early THEN k ELSE k + 1
        ty == IF decoy THEN DoWhileItem(c.available, c.target, c.tape, k1, Len(c.tape))
              ELSE [val |-> c.target, k |-> k1, ok |-> TRUE]
        force == Rnd(c.tape, ty.k) < 200 /\ ~cma /\ c.diff # "easy"
        color == IF force THEN c.tcolor ELSE getRandomItem(c.roundColors, Rnd(c.tape, ty.k + 1))
    IN  [type |-> ty.val, color |-> color,
         isMatch |-> GenIsMatch(c.diff, ty.val, color, c.target, c.tcolor),
         k |-> IF force THEN ty.k + 1 ELSE ty.k + 2,
         cma |-> cma \/ force, ok |-> ty.ok]

\* Type, colour and isMatch of the shape with index i of the main loop.
ShapeChoice(i, k, cma, c) ==
    IF i = 0 /\ c.diff \in {"medium", "hard"}
    THEN [type |-> c.target, color |-> c.tcolor, isMatch |-> TRUE,
          k |-> k, cma |-> TRUE, ok |-> TRUE]
    ELSE IF i = 0 /\ c.diff = "easy"
    THEN LET col == DoWhileItem(c.roundColors, c.tcolor, c.tape, k, Len(c.tape))
         IN  [type |-> c.target, color |-> col.val, isMatch |-> TRUE,
              k |-> col.k, cma |-> cma, ok |-> col.ok]
    ELSE RandomShapeChoice(3 * i < c.adjustedCount, k, cma, c)

\* zIndex draws Math.random() for a shape that is no match; rotation always.
ZAndRotationDraws(isMatch) == IF isMatch THEN 1 ELSE 2

\* Position inside a grid cell: the cell's corner plus an offset of at least
\* cellPadding (10 px).
CellOffset(cellLen, size, r) ==
    LET maxOffset == cellLen - size - 2 * Px(10)
    IN  IF maxOffset > 0 THEN getRandomNumber(Px(10), maxOffset, r) ELSE Px(10)

CellOffsetDraws(cellLen, size) == IF cellLen - size - 2 * Px(10) > 0 THEN 1 ELSE 0

\* The main loop from index i on.  g = [shapes, cells, k, cma, ok]; the loop
\* breaks when the cells run out, dropping the shape being built but keeping
\* the draws and the colorMatchAdded flag it used.
RECURSIVE GridLoop(_, _, _)

\* One pass of the main loop for the shape whose type and colour ch holds.
GridPass(i, g, c, ch) ==
    LET size == getRandomNumber(Px(c.minSize), Px(c.maxSize), Rnd(c.tape, ch.k))
        k1 == ch.k + 1
    IN  IF Len(g.cells) = 0
        THEN [g EXCEPT !.k = k1, !.cma = ch.cma, !.ok = g.ok /\ ch.ok]
        ELSE
        LET cell == g.cells[Len(g.cells)]
            dx == CellOffsetDraws(cell.width, size)
            dy == CellOffsetDraws(cell.height, size)
            offsetX == CellOffset(cell.width, size, Rnd(c.tape, k1))
            offsetY == CellOffset(cell.height, size, Rnd(c.tape, k1 + dx))
            shape == [type |-> ch.type, color |-> ch.color, size |-> size,
                      isMatch |-> ch.isMatch, x |-> cell.x + offsetX,
                      y |-> cell.y + offsetY, vx |-> 0, vy |-> 0]
        IN  GridLoop(i + 1,
                     [shapes |-> Append(g.shapes, shape),
                      cells |-> SubSeq(g.cells, 1, Len(g.cells) - 1),
                      k |-> k1 + dx + dy + ZAndRotationDraws(ch.isMatch),
                      cma |-> ch.cma, ok |-> g.ok /\ ch.ok],
                     c)

GridLoop(i, g, c) ==
    IF i >= c.adjustedCount THEN g
    ELSE GridPass(i, g, c, ShapeChoice(i, g.k, g.cma, c))

\* The fallback loop: n more shapes at random positions with a 20 px margin.
RECURSIVE FallbackLoop(_, _, _)

\* One pass of the fallback loop for the shape whose type and colour ch holds.
FallbackPass(n, g, c, ch) ==
    LET size == getRandomNumber(Px(c.minSize), Px(c.maxSize), Rnd(c.tape, ch.k))
        posX == getRandomNumber(Px(20), Px(c.bw) - size - Px(20), Rnd(c.tape, ch.k + 1))
        posY == getRandomNumber(Px(20), Px(c.bh) - size - Px(20), Rnd(c.tape, ch.k + 2))
        shape == [type |-> ch.type, color |-> ch.color, size |-> size,
                  isMatch |-> ch.isMatch, x |-> posX, y |-> posY, vx |-> 0, vy |-> 0]
    IN  FallbackLoop(n - 1,
                     [g EXCEPT !.shapes = Append(g.shapes, shape),
                               !.k = ch.k + 3 + ZAndRotationDraws(ch.isMatch),
                               !.cma = ch.cma, !.ok = g.ok /\ ch.ok],
                     c)

FallbackLoop(n, g, c) ==
    IF n <= 0 THEN g
    ELSE FallbackPass(n, g, c, RandomShapeChoice(FALSE, g.k, g.cma, c))

\* The shapes still missing after the main loop come from the fallback loop.
FallbackFill_Skip(g, c) == g

\* The random-placement fallback fills up to adjustedCount.
FallbackFill(g, c) == FallbackLoop(c.adjustedCount - Len(g.shapes), g, c)

HasCorrectMatch(s) == \E n \in DOMAIN s : s[n].isMatch

\* The generator without its repair step.
RepairNoMatch_Skip(g, c) == g

\* No shape matches: the last one becomes a match near the board's centre.
RepairNoMatch(g, c) ==
    IF HasCorrectMatch(g.shapes) THEN g
    ELSE
    LET last == Len(g.shapes)
        old == g.shapes[last]
        fixed == [old EXCEPT
                    !.type = c.target,
                    !.color = IF c.diff # "easy" THEN c.tcolor ELSE old.color,
                    !.isMatch = TRUE,
                    !.x = Px(c.bw) \div 2 - old.size \div 2
                          + getRandomNumber(Px(-50), Px(50), Rnd(c.tape, g.k)),
                    !.y = Px(c.bh) \div 2 - old.size \div 2
                          + getRandomNumber(Px(-50), Px(50), Rnd(c.tape, g.k + 1))]
    IN  [g EXCEPT !.shapes = [g.shapes EXCEPT ![last] = fixed], !.k = g.k + 2]

\* Indices of the matching shapes, in order.
RECURSIVE MatchingFrom(_, _)
MatchingFrom(s, n) ==
    IF n > Len(s) THEN <<>>
    ELSE (IF s[n].isMatch THEN <<n>> ELSE <<>>) \o MatchingFrom(s, n + 1)

Quadrants(bw, bh) ==
    <<[minX |-> 0, maxX |-> Px(bw) \div 2, minY |-> 0, maxY |-> Px(bh) \div 2],
      [minX |-> Px(bw) \div 2, maxX |-> Px(bw), minY |-> 0, maxY |-> Px(bh) \div 2],
      [minX |-> 0, maxX |-> Px(bw) \div 2, minY |-> Px(bh) \div 2, maxY |-> Px(bh)],
      [minX |-> Px(bw) \div 2, maxX |-> Px(bw), minY |-> Px(bh) \div 2, maxY |-> Px(bh)]>>

\* Move the first matching shapes into the shuffled quadrants, one each.
RECURSIVE QuadrantLoop(_, _, _, _, _, _)
QuadrantLoop(i, matching, quads, s, k, tape) ==
    IF i > Min(Len(matching), Len(quads)) THEN s
    ELSE
    LET sh == s[matching[i]]
        q == quads[i]
        margin == Max(Px(30), sh.size \div 2)
        moved == [sh EXCEPT
                    !.x = getRandomNumber(q.minX + margin, q.maxX - sh.size - margin,
                                          Rnd(tape, k)),
                    !.y = getRandomNumber(q.minY + margin, q.maxY - sh.size - margin,
                                          Rnd(tape, k + 1))]
    IN  QuadrantLoop(i + 1, matching, quads, [s EXCEPT ![matching[i]] = moved], k + 2, tape)

SpreadMatches(g, c) ==
    LET matching == MatchingFrom(g.shapes, 1)
        quads == shuffleArray(Quadrants(c.bw, c.bh), c.tape, g.k)
    IN  IF Len(matching) <= 1 THEN g
        ELSE [g EXCEPT !.shapes = QuadrantLoop(1, matching, quads, g.shapes, g.k + 3, c.tape),
                       !.k = g.k + 3 + 2 * Min(Len(matching), 4)]

\* getRandomNumber(min, max) * (Math.random() > 0.5 ? 1 : -1)
Velocity(diff, r, rsign) ==
    getRandomNumber(difficulty[diff].movementSpeed.min, difficulty[diff].movementSpeed.max, r)
    * (IF rsign > 500 THEN 1 ELSE -1)

AssignVelocities(g, c) ==
    IF c.diff # "hard" THEN g
    ELSE [g EXCEPT
            !.shapes = [n \in DOMAIN g.shapes |->
                [g.shapes[n] EXCEPT
                    !.vx = Velocity(c.diff, Rnd(c.tape, g.k + 4 * (n - 1)),
                                    Rnd(c.tape, g.k + 4 * (n - 1) + 1)),
                    !.vy = Velocity(c.diff, Rnd(c.tape, g.k + 4 * (n - 1) + 2),
                                    Rnd(c.tape, g.k + 4 * (n - 1) + 3))]],
            !.k = g.k + 4 * Len(g.shapes)]

\* Footprint of a shape, in units.
ShapeWidth(sh) == IF sh.type \in {"rectangle", "oval"} THEN (3 * sh.size) \div 2 ELSE sh.size
ShapeHeight(sh) == IF sh.type \in {"rectangle", "oval"} THEN (3 * sh.size) \div 4 ELSE sh.size

\* The board is too small for a round: the call only schedules its retry.
BoardTooSmall_Never(bw, bh) == bw < 0 \/ bh < 0

BoardTooSmall(bw, bh) == bw < 100 \/ bh < 100

\* The steps of generateGameShapes after its set-up, on the shuffled cells
\* and tape position of g0 with the locals c.
PlaceShapes(g0, c) ==
    AssignVelocities(SpreadMatches(RepairNoMatch(FallbackFill(GridLoop(0, g0, c), c), c), c), c)

\* What a call that went through its steps leaves: g is the outcome of
\* PlaceShapes, tcolor what gameState.targetColor holds.
Generated(g, c, tcolor) ==
    [end |-> IF g.ok THEN "done" ELSE "hung", shapes |-> g.shapes,
     roundColors |-> c.roundColors, targetColor |-> tcolor]

\* The locals of a call: c.tcolor is the local targetShapeColor, which keeps
\* a missing colour; only gameState.targetColor gets the fallback colour.
Locals(count, target, diff, tcolor0, bw, bh, iw, tape, k1) ==
    [target |-> target, tcolor |-> tcolor0, diff |-> diff,
     roundColors |-> RoundPalette(diff, count, tcolor0, tape, k1),
     available |-> getAvailableShapes(diff), minSize |-> SizeRange(iw)[1],
     maxSize |-> SizeRange(iw)[2], bw |-> bw, bh |-> bh, tape |-> tape,
     adjustedCount |-> AdjustedCount(count, bw, bh)]

\* The shuffled grid cells and the tape position after the shuffle.
ShuffledCells(cells0, tape, k2) ==
    [shapes |-> <<>>, cells |-> shuffleArray(cells0, tape, k2),
     k |-> k2 + ShuffleDraws(cells0), cma |-> FALSE, ok |-> TRUE]

\* generateGameShapes(count, targetShapeType) on the given game state, its
\* Math.random() calls read from tape starting at k0.  The result tells how
\* the call ended ("threw", "retry", "hung" when a do-while never ends on this
\* tape, "done"), the shapes, the palette and gameState.targetColor.
generateGameShapes(count, target, diff, tcolor0, bw, bh, iw, tape, k0) ==
    IF target = Null
    THEN [end |-> "threw", shapes |-> <<>>, roundColors |-> <<>>, targetColor |-> tcolor0]
    ELSE IF BoardTooSmall(bw, bh)
    THEN [end |-> "retry", shapes |-> <<>>, roundColors |-> <<>>, targetColor |-> tcolor0]
    ELSE
    LET k1 == IF tcolor0 = Null THEN k0 + 1 ELSE k0
        k2 == k1 + PaletteDraws(diff, tcolor0)
        c == Locals(count, target, diff, tcolor0, bw, bh, iw, tape, k1)
        cells0 == GridCells(bw, bh, GridCellSize(SizeRange(iw)[2]))
    IN  Generated(PlaceShapes(ShuffledCells(cells0, tape, k2), c), c,
                  IF tcolor0 = Null THEN getRandomItem(colors, Rnd(tape, k0)) ELSE tcolor0)

\* renderShapes: one element per new shape, appended after what the board holds.
RenderedElements(s) == [n \in DOMAIN s |-> [type |-> s[n].type, color |-> s[n].color]]

\* The retry of a call that found the board too small: setTimeout(0) around
\* setTimeout(100), kept as one pending callback with the call's arguments.
\* One more callback may be scheduled within the bounds.
RoomFor(pending) ==
    /\ Len(SelectSeq(pending, LAMBDA p : ~p.stale)) < MaxPending
    /\ Len(pending) < MaxPending + MaxStale

RetryTimeout(count, target) ==
    [kind |-> "retry", delay |-> 100, count |-> count, target |-> target, stale |-> FALSE]

\* No generateGameShapes call yet.
NoGen == [end |-> "none", count |-> 0, target |-> Null, tcolor |-> Null, tape |-> <<>>]

\* No click has been judged in this round.
NoClick == [type |-> Null, color |-> Null, verdict |-> "none"]

\* localStorage without high scores.
\* gameState.highScores as the module creates it; nothing assigns it.
NoHighScores == [easy |-> <<>>, medium |-> <<>>, hard |-> <<>>]

\* The name typed into the setup screen, trimmed and not empty.
TypedName == "Player"

EmptyStorage == [classic |-> <<>>, timed |-> <<>>, legacy |-> <<>>]

\* What a generateGameShapes(count, target) call that ended as res does to
\* the state: the board held the elements domBefore and the callbacks
\* pendingBefore were pending.
Generate(res, count, target, tcolor, domBefore, pendingBefore, tape) ==
    /\ res.end # "hung"
    /\ res.end = "retry" => RoomFor(pendingBefore)
    /\ shapes' = res.shapes
    /\ targetColor' = res.targetColor
    /\ roundColors' = res.roundColors
    /\ dom' = domBefore \o RenderedElements(res.shapes)
    /\ timeouts' = IF res.end = "retry"
                   THEN Append(pendingBefore, RetryTimeout(count, target))
                   ELSE pendingBefore
    /\ lastGen' = [end |-> res.end, count |-> count, target |-> target,
                   tcolor |-> tcolor, tape |-> tape]
    /\ frameCount' = 0

\* The effects of one generateGameShapes(count, target) call made while the
\* game state holds target colour tcolor and the board measures b.  The call
\* throws on a missing target before it touches the state; every caller that
\* can pass one has just cleared gameState.shapes.
GenerateEffects(count, target, tcolor, b, domBefore, pendingBefore, tape, k0) ==
    Generate(generateGameShapes(count, target, currentDifficulty, tcolor, b[1], b[2],
                                innerWidth, tape, k0),
             count, target, tcolor, domBefore, pendingBefore, tape)

-----------------------------------------------------------------------------
(* SpecGen: one generateGameShapes(shapesQuantity, targetShape) call, as    *)
(* startNewRound makes it once createTargetShape has set the target, from   *)
(* every difficulty, target, quantity and board of the sets below.          *)

GenBoards == {<<100, 100>>, <<150, 150>>, <<301, 199>>, <<400, 300>>, <<800, 500>>}
GenWidths == {768, 1000, 1300}
GenCounts == {3, 9, 20}
GenTargets == {"circle", "rectangle", "oval", "star"}
GenColors == {colors[1], colors[8]}


InitGen ==
    /\ currentDifficulty \in Difficulties
    /\ currentMode = "classic"
    /\ shapesQuantity \in GenCounts
    /\ score = 0
    /\ attemptsLeft = maxAttempts
    /\ targetShape \in {t \in GenTargets : Includes(getAvailableShapes(currentDifficulty), t)}
    /\ targetColor \in GenColors
    /\ shapes = <<>>
    /\ gameOver = FALSE
    /\ timeRemaining = 0
    /\ timerInterval = 0
    /\ animationFrameId = 0
    /\ board \in GenBoards
    /\ innerWidth \in {w \in GenWidths : w >= board[1]}
    /\ setupModal = FALSE
    /\ gameOverScreen = FALSE
    /\ endGameDialog = FALSE
    /\ dom = <<>>
    /\ timeouts = <<>>
    /\ intervals = {}
    /\ frames = {}
    /\ storage = EmptyStorage
    /\ roundColors = <<>>
    /\ lastGen = NoGen
    /\ frameCount = 0
    /\ tickCount = 0
    /\ lastClick = NoClick
    /\ playerName = TypedName
    /\ highScores = NoHighScores
    /\ confettiAnimationId = 0
    /\ confettiLaunches = <<>>
    /\ confettiHidden = FALSE

GenerateCall ==
    /\ lastGen.end = "none"
    /\ \E tape \in Tapes :
          GenerateEffects(shapesQuantity, targetShape, targetColor, board, dom, timeouts, tape, 0)
    /\ UNCHANGED <<currentDifficulty, currentMode, shapesQuantity, score, attemptsLeft,
                   targetShape, gameOver, timeRemaining, timerInterval, animationFrameId,
                   board, innerWidth, setupModal, gameOverScreen, endGameDialog,
                   intervals, frames, storage, tickCount, lastClick, playerName, highScores, confettiAnimationId,
                   confettiLaunches, confettiHidden>>

NextGen == GenerateCall

SpecGen == InitGen /\ [][NextGen]_vars

\* The last generateGameShapes call completed on a board of at least 100 x 100.
GenDone == lastGen.end = "done"

\* The grid of the call has no cell at all: every shape comes from the fallback.
NoGridCell ==
    Len(GridCells(board[1], board[2], GridCellSize(SizeRange(innerWidth)[2]))) = 0

\* C1: after every completed generateGameShapes call on a board of at least
\* 100 x 100, in every difficulty and for every target, gameState.shapes is
\* non-empty and holds at least one shape with isMatch = true, also when no
\* grid cell is free for the first shape and all shapes come from the fallback.
C1_RoundHasMatch == GenDone => (Len(shapes) > 0 /\ HasCorrectMatch(shapes))

C1_Witness_FallbackOnly == GenDone /\ NoGridCell /\ HasCorrectMatch(shapes)

\* Shape sh lies within a board of bw x bh units with its whole footprint.
WithinBoard(sh, bw, bh) ==
    /\ 0 <= sh.x /\ sh.x + ShapeWidth(sh) <= bw
    /\ 0 <= sh.y /\ sh.y + ShapeHeight(sh) <= bh

\* C4: after generateGameShapes on a board of at least 100 x 100 every shape
\* satisfies 0 <= x, x + width <= boardWidth, 0 <= y, y + height <= boardHeight
\* with width = 1.5 * size and height = 0.75 * size for rectangle and oval.
C4_ShapesWithinBoard ==
    GenDone => \A n \in DOMAIN shapes : WithinBoard(shapes[n], Px(board[1]), Px(board[2]))

\* C5: under distinctColors the palette of generateGameShapes(count, ...) has
\* at most count + 1 entries and contains the round's target colour, also
\* when the shuffle and cut dropped the target colour.
C5_PaletteBounded ==
    (GenDone /\ difficulty[currentDifficulty].distinctColors)
        => (Len(roundColors) <= lastGen.count + 1 /\ Includes(roundColors, lastGen.tcolor))

\* The cut of this call's shuffle had dropped the target colour.
C5_Witness_CutDroppedTarget ==
    /\ GenDone
    /\ difficulty[currentDifficulty].distinctColors
    /\ ~Includes(SubSeq(shuffleArray(colors, lastGen.tape, 0), 1, lastGen.count + 1),
                 lastGen.tcolor)
    /\ Includes(roundColors, lastGen.tcolor)

\* A hard round of 20 requested shapes on a board of 400 x 300 was asked for.
Hard20On400x300 ==
    /\ lastGen.end # "none"
    /\ currentDifficulty = "hard"
    /\ lastGen.count = 20
    /\ board = <<400, 300>>

FewerCellsThanShapes ==
    Len(GridCells(board[1], board[2], GridCellSize(SizeRange(innerWidth)[2])))
        < Max(5, Min(lastGen.count, (board[1] * board[2]) \div 20000))

WithinSpeedRange(diff, v) ==
    /\ v # 0
    /\ Max(v, -v) >= difficulty[diff].movementSpeed.min
    /\ Max(v, -v) <= difficulty[diff].movementSpeed.max

\* C16: after a completed generateGameShapes call every shape has vx = 0 and
\* vy = 0 in easy and medium, and in hard a non-zero vx and a non-zero vy
\* whose absolute values lie within movementSpeed, 0.05 to 0.15.
C16_VelocityWithinSpeedRange ==
    GenDone =>
        \A n \in DOMAIN shapes :
            IF currentDifficulty = "hard"
            THEN /\ WithinSpeedRange(currentDifficulty, shapes[n].vx)
                 /\ WithinSpeedRange(currentDifficulty, shapes[n].vy)
            ELSE shapes[n].vx = 0 /\ shapes[n].vy = 0

\* C19: in a round generated under a difficulty with distinctColors (easy),
\* no two shapes on the board have the same colour.
C19_ColoursUnique ==
    (GenDone /\ difficulty[currentDifficulty].distinctColors)
        => \A n1, n2 \in DOMAIN shapes : n1 # n2 => shapes[n1].color # shapes[n2].color

-----------------------------------------------------------------------------
(* gameLogic.js: the motion loop                                            *)

MoveShape_NoClamp(sh, bw, bh) ==
    LET x1 == sh.x + sh.vx
        y1 == sh.y + sh.vy
        hitX == x1 <= 0 \/ x1 + ShapeWidth(sh) >= bw
        hitY == y1 <= 0 \/ y1 + ShapeHeight(sh) >= bh
    IN  [sh EXCEPT !.x = x1, !.y = y1,
                   !.vx = IF hitX THEN -sh.vx ELSE sh.vx,
                   !.vy = IF hitY THEN -sh.vy ELSE sh.vy]

\* One pass of moveShapes over one shape on a board of bw x bh units.
MoveShape(sh, bw, bh) ==
    LET x1 == sh.x + sh.vx
        y1 == sh.y + sh.vy
        w == ShapeWidth(sh)
        h == ShapeHeight(sh)
        hitX == x1 <= 0 \/ x1 + w >= bw
        hitY == y1 <= 0 \/ y1 + h >= bh
        x2 == IF hitX /\ x1 <= 0 THEN 0 ELSE x1
        x3 == IF hitX /\ x2 + w >= bw THEN bw - w ELSE x2
        y2 == IF hitY /\ y1 <= 0 THEN 0 ELSE y1
        y3 == IF hitY /\ y2 + h >= bh THEN bh - h ELSE y2
    IN  [sh EXCEPT !.x = x3, !.y = y3,
                   !.vx = IF hitX THEN -sh.vx ELSE sh.vx,
                   !.vy = IF hitY THEN -sh.vy ELSE sh.vy]

MoveShapes(s, bw, bh) == [n \in DOMAIN s |-> MoveShape(s[n], bw, bh)]

\* The smallest id no live callback carries.
NewId(live) == CHOOSE n \in 1..(Cardinality(live) + 1) :
                   n \notin live /\ \A m \in 1..(n - 1) : m \in live

Cancelled_Nothing(id, live) == live

\* stopMovingShapes / stopTimer: cancel what the stored id names, store null.
Cancelled(id, live) == IF id # 0 THEN live \ {id} ELSE live

-----------------------------------------------------------------------------
(* gameLogic.js: high scores                                                *)

\* Array.prototype.sort((a, b) => b.score - a.score) is stable: insert each
\* entry after the entries that score at least as much.
RECURSIVE InsertDesc(_, _)
InsertDesc(sorted, e) ==
    IF sorted = <<>> THEN <<e>>
    ELSE IF Head(sorted).score >= e.score THEN <<Head(sorted)>> \o InsertDesc(Tail(sorted), e)
    ELSE <<e>> \o sorted

RECURSIVE SortDesc(_)
SortDesc(list) ==
    IF list = <<>> THEN <<>>
    ELSE InsertDesc(SortDesc(SubSeq(list, 1, Len(list) - 1)), list[Len(list)])

\* saveHighScore: the stored list of the current mode after the game's entry
\* is pushed, the list sorted and cut to 10; nothing is written for score 0.
saveHighScore(store, mode, diff, sc) ==
    IF sc > 0
    THEN LET pushed == Append(store[mode], [score |-> sc, difficulty |-> diff, mode |-> mode])
             sorted == SortDesc(pushed)
         IN  [store EXCEPT ![mode] = SubSeq(sorted, 1, Min(10, Len(sorted)))]
    ELSE store

FilterMode(list, mode) == SelectSeq(list, LAMBDA e : e.mode = mode)

\* loadHighScores: when the current mode has no list yet and legacy scores
\* exist, each mode's legacy entries are written under that mode's key.
loadHighScores(store, mode) ==
    IF Len(store[mode]) > 0 \/ Len(store.legacy) = 0 THEN store
    ELSE LET classicScores == FilterMode(store.legacy, "classic")
             timedScores == FilterMode(store.legacy, "timed")
         IN  [store EXCEPT
                !.classic = IF Len(classicScores) > 0 THEN classicScores ELSE @,
                !.timed = IF Len(timedScores) > 0 THEN timedScores ELSE @]

-----------------------------------------------------------------------------
(* Timers, frames and the end of a game                                     *)

\* A callback without arguments; stale records that the game which scheduled
\* it has ended since.
NoArgs(kind, delay) ==
    [kind |-> kind, delay |-> delay, count |-> 0, target |-> Null, stale |-> FALSE]

\* The pending callbacks once the game that scheduled them has ended.
MarkStale(pending) == [n \in DOMAIN pending |-> [pending[n] EXCEPT !.stale = TRUE]]

\* A pending callback may run once no callback created before it is due earlier.
MayFire(pending, n) == \A m \in 1..(n - 1) : pending[m].delay > pending[n].delay

Without(pending, n) == SubSeq(pending, 1, n - 1) \o SubSeq(pending, n + 1, Len(pending))

\* startTimer: stopTimer, then a new setInterval whose id is stored.
startTimer(id, live) ==
    LET rest == Cancelled(id, live)
    IN  [id |-> NewId(rest), live |-> rest \cup {NewId(rest)}]

startMovingShapes_KeepsOld(id, live, over, s) ==
    IF ~over /\ Len(s) > 0
    THEN [id |-> NewId(live), live |-> live \cup {NewId(live)}]
    ELSE [id |-> 0, live |-> live]

\* startMovingShapes: stopMovingShapes, then the first frame is requested
\* when the game is not over and there are shapes.
startMovingShapes(id, live, over, s) ==
    LET rest == Cancelled(id, live)
    IN  IF ~over /\ Len(s) > 0
        THEN [id |-> NewId(rest), live |-> rest \cup {NewId(rest)}]
        ELSE [id |-> 0, live |-> rest]

endGame_KeepsLoops(sc, tid, ivs, fid, frs) ==
    /\ gameOver' = TRUE
    /\ timerInterval' = 0
    /\ intervals' = ivs
    /\ animationFrameId' = 0
    /\ frames' = frs
    /\ gameOverScreen' = TRUE
    /\ storage' = saveHighScore(storage, currentMode, currentDifficulty, sc)
    /\ timeouts' = MarkStale(timeouts)

\* endGame, run when the timer and frame ids are tid and fid with the live
\* callbacks ivs and frs, and the score is sc.
endGame(sc, tid, ivs, fid, frs) ==
    /\ gameOver' = TRUE
    /\ timerInterval' = 0
    /\ intervals' = Cancelled(tid, ivs)
    /\ animationFrameId' = 0
    /\ frames' = Cancelled(fid, frs)
    /\ gameOverScreen' = TRUE
    /\ storage' = saveHighScore(storage, currentMode, currentDifficulty, sc)
    /\ timeouts' = MarkStale(timeouts)

-----------------------------------------------------------------------------
(* The page once its load event has run initGame: the defaults of           *)
(* gameState.js, the setup screen shown, no callback pending.               *)

PageLoaded(b, store) ==
    /\ currentDifficulty = "easy"
    /\ currentMode = "classic"
    /\ shapesQuantity = 10
    /\ score = 0
    /\ attemptsLeft = 0
    /\ targetShape = Null
    /\ targetColor = Null
    /\ shapes = <<>>
    /\ gameOver = FALSE
    /\ timeRemaining = 0
    /\ timerInterval = 0
    /\ animationFrameId = 0
    /\ board = b
    /\ innerWidth = 1000
    /\ setupModal = TRUE
    /\ gameOverScreen = FALSE
    /\ endGameDialog = FALSE
    /\ dom = <<>>
    /\ timeouts = <<>>
    /\ intervals = {}
    /\ frames = {}
    /\ storage = store
    /\ roundColors = <<>>
    /\ lastGen = NoGen
    /\ frameCount = 0
    /\ tickCount = 0
    /\ lastClick = NoClick
    /\ playerName = ""
    /\ highScores = NoHighScores
    /\ confettiAnimationId = 0
    /\ confettiLaunches = <<>>
    /\ confettiHidden = FALSE

\* The page is loaded again: every module starts from its defaults, the
\* callbacks of the old page are gone and initGame runs loadHighScores.
InitGame ==
    /\ currentDifficulty' = "easy"
    /\ currentMode' = "classic"
    /\ shapesQuantity' = 10
    /\ score' = 0
    /\ attemptsLeft' = 0
    /\ targetShape' = Null
    /\ targetColor' = Null
    /\ shapes' = <<>>
    /\ gameOver' = FALSE
    /\ timeRemaining' = 0
    /\ timerInterval' = 0
    /\ animationFrameId' = 0
    /\ setupModal' = TRUE
    /\ gameOverScreen' = FALSE
    /\ endGameDialog' = FALSE
    /\ dom' = <<>>
    /\ timeouts' = <<>>
    /\ intervals' = {}
    /\ frames' = {}
    /\ storage' = loadHighScores(storage, "classic")
    /\ roundColors' = <<>>
    /\ lastGen' = NoGen
    /\ frameCount' = 0
    /\ tickCount' = 0
    /\ lastClick' = NoClick
    /\ playerName' = ""
    /\ highScores' = NoHighScores
    /\ confettiAnimationId' = 0
    /\ confettiLaunches' = <<>>
    /\ confettiHidden' = FALSE
    /\ UNCHANGED <<board, innerWidth>>

-----------------------------------------------------------------------------
(* events.js: the setup screen                                              *)

\* A difficulty button: applyDifficultySettings clamps the quantity, then
\* medium and hard overwrite it with 15 and 20.
ClickDifficulty(d) ==
    /\ setupModal
    /\ currentDifficulty' = d
    /\ shapesQuantity' = IF d = "medium" THEN 15
                         ELSE IF d = "hard" THEN 20
                         ELSE applyDifficultySettings(d, shapesQuantity)
    /\ UNCHANGED <<currentMode, score, attemptsLeft, targetShape, targetColor, shapes,
                   gameOver, timeRemaining, timerInterval, animationFrameId, board,
                   innerWidth, setupModal, gameOverScreen, endGameDialog, dom, timeouts,
                   intervals, frames, storage, roundColors, lastGen, frameCount, tickCount, lastClick, playerName, highScores, confettiAnimationId,
                   confettiLaunches, confettiHidden>>

ClickMode(m) ==
    /\ setupModal
    /\ currentMode' = m
    /\ UNCHANGED <<currentDifficulty, shapesQuantity, score, attemptsLeft, targetShape,
                   targetColor, shapes, gameOver, timeRemaining, timerInterval,
                   animationFrameId, board, innerWidth, setupModal, gameOverScreen,
                   endGameDialog, dom, timeouts, intervals, frames, storage, roundColors,
                   lastGen, frameCount, tickCount, lastClick, playerName, highScores, confettiAnimationId,
                   confettiLaunches, confettiHidden>>

ClickDecrease ==
    /\ setupModal
    /\ shapesQuantity' = IF shapesQuantity > 3 THEN shapesQuantity - 1 ELSE shapesQuantity
    /\ UNCHANGED <<currentDifficulty, currentMode, score, attemptsLeft, targetShape,
                   targetColor, shapes, gameOver, timeRemaining, timerInterval,
                   animationFrameId, board, innerWidth, setupModal, gameOverScreen,
                   endGameDialog, dom, timeouts, intervals, frames, storage, roundColors,
                   lastGen, frameCount, tickCount, lastClick, playerName, highScores, confettiAnimationId,
                   confettiLaunches, confettiHidden>>

ClickIncrease ==
    /\ setupModal
    /\ shapesQuantity' = IF shapesQuantity < 20 THEN shapesQuantity + 1 ELSE shapesQuantity
    /\ UNCHANGED <<currentDifficulty, currentMode, score, attemptsLeft, targetShape,
                   targetColor, shapes, gameOver, timeRemaining, timerInterval,
                   animationFrameId, board, innerWidth, setupModal, gameOverScreen,
                   endGameDialog, dom, timeouts, intervals, frames, storage, roundColors,
                   lastGen, frameCount, tickCount, lastClick, playerName, highScores, confettiAnimationId,
                   confettiLaunches, confettiHidden>>

\* startGame: the state of a fresh game, the countdown in timed mode and the
\* first round 100 ms later.
startGame ==
    /\ RoomFor(timeouts)
    /\ gameOver' = FALSE
    /\ score' = 0
    /\ attemptsLeft' = maxAttempts
    /\ targetShape' = Null
    /\ shapes' = <<>>
    /\ dom' = <<>>
    /\ IF currentMode = "timed"
       THEN /\ timeRemaining' = difficulty[currentDifficulty].timeLimit
            /\ timerInterval' = startTimer(timerInterval, intervals).id
            /\ intervals' = startTimer(timerInterval, intervals).live
       ELSE UNCHANGED <<timeRemaining, timerInterval, intervals>>
    /\ setupModal' = FALSE
    /\ timeouts' = Append(timeouts, NoArgs("startRound", 100))
    /\ roundColors' = <<>>
    /\ lastGen' = NoGen
    /\ frameCount' = 0
    /\ tickCount' = 0
    /\ lastClick' = NoClick
    /\ UNCHANGED <<currentDifficulty, currentMode, shapesQuantity, targetColor,
                   animationFrameId, board, innerWidth, endGameDialog, frames, storage,
                   highScores, confettiAnimationId,
                   confettiLaunches, confettiHidden>>

\* The start button of the setup screen, with a player name typed in.
StartGameFromSetup ==
    /\ setupModal
    /\ playerName' = TypedName
    /\ startGame
    /\ UNCHANGED gameOverScreen

\* The restart button of the game-over screen.
RestartGame ==
    /\ gameOverScreen
    /\ gameOverScreen' = FALSE
    /\ startGame
    /\ UNCHANGED playerName

resetGameState_ForgetsPlayer ==
    /\ score' = 0
    /\ attemptsLeft' = 0
    /\ timerInterval' = 0
    /\ targetShape' = Null
    /\ targetColor' = Null
    /\ shapes' = <<>>
    /\ gameOver' = FALSE
    /\ animationFrameId' = 0
    /\ timeRemaining' = 0
    /\ confettiAnimationId' = 0
    /\ playerName' = ""
    /\ UNCHANGED <<currentDifficulty, currentMode, shapesQuantity, highScores,
                   confettiLaunches, confettiHidden>>

\* resetGameState: the fields of a game are cleared, the player's settings,
\* name and in-memory high scores are kept.
resetGameState ==
    /\ score' = 0
    /\ attemptsLeft' = 0
    /\ timerInterval' = 0
    /\ targetShape' = Null
    /\ targetColor' = Null
    /\ shapes' = <<>>
    /\ gameOver' = FALSE
    /\ animationFrameId' = 0
    /\ timeRemaining' = 0
    /\ confettiAnimationId' = 0
    /\ UNCHANGED <<currentDifficulty, currentMode, shapesQuantity, playerName, highScores,
                   confettiLaunches, confettiHidden>>

\* The back-to-menu button of the game-over screen: resetGameState forgets the
\* timer and frame ids before stopTimer and stopMovingShapes look at them.
ShowSetupModal ==
    /\ gameOverScreen
    /\ resetGameState
    /\ dom' = <<>>
    /\ gameOverScreen' = FALSE
    /\ setupModal' = TRUE
    /\ roundColors' = <<>>
    /\ lastGen' = NoGen
    /\ frameCount' = 0
    /\ tickCount' = 0
    /\ lastClick' = NoClick
    /\ UNCHANGED <<board, innerWidth, endGameDialog, timeouts, intervals, frames, storage>>

-----------------------------------------------------------------------------
(* gameLogic.js: rounds, clicks, the countdown and the motion loop          *)


\* startNewRound once the callbacks pending are known: the board is cleared,
\* the target drawn, the shapes generated and, in hard, the motion started.
startNewRound(pending, tape) ==
    LET target == getRandomItem(getAvailableShapes(currentDifficulty), Rnd(tape, 0))
        tcolor == getRandomItem(colors, Rnd(tape, 1))
    IN  /\ targetShape' = target
        /\ GenerateEffects(shapesQuantity, target, tcolor, board, <<>>, pending, tape, 2)
        /\ IF currentDifficulty = "hard"
           THEN /\ animationFrameId' =
                       startMovingShapes(animationFrameId, frames, gameOver, shapes').id
                /\ frames' = startMovingShapes(animationFrameId, frames, gameOver, shapes').live
           ELSE UNCHANGED <<animationFrameId, frames>>
        /\ lastClick' = NoClick
        /\ UNCHANGED <<currentDifficulty, currentMode, shapesQuantity, score, attemptsLeft,
                       gameOver, timeRemaining, timerInterval, board, innerWidth, setupModal,
                       gameOverScreen, endGameDialog, intervals, storage, tickCount,
                       playerName, highScores, confettiAnimationId,
                   confettiLaunches, confettiHidden>>

\* The 100 ms callback of startGame.
FireStartRound(n, tape) ==
    /\ n \in DOMAIN timeouts
    /\ timeouts[n].kind = "startRound"
    /\ MayFire(timeouts, n)
    /\ startNewRound(Without(timeouts, n), tape)

\* The successDelay callback of a correct click: a new round unless the game is over.
FireSuccess(n, tape) ==
    /\ n \in DOMAIN timeouts
    /\ timeouts[n].kind = "success"
    /\ MayFire(timeouts, n)
    /\ IF ~gameOver
       THEN startNewRound(Without(timeouts, n), tape)
       ELSE /\ timeouts' = Without(timeouts, n)
            /\ UNCHANGED <<currentDifficulty, currentMode, shapesQuantity, score,
                           attemptsLeft, targetShape, targetColor, shapes, gameOver,
                           timeRemaining, timerInterval, animationFrameId, board,
                           innerWidth, setupModal, gameOverScreen, endGameDialog, dom,
                           intervals, frames, storage, roundColors, lastGen, frameCount,
                           tickCount, lastClick, playerName, highScores, confettiAnimationId,
                   confettiLaunches, confettiHidden>>

\* The retry of a generateGameShapes call that found the board too small.
FireRetry(n, tape) ==
    /\ n \in DOMAIN timeouts
    /\ timeouts[n].kind = "retry"
    /\ MayFire(timeouts, n)
    /\ GenerateEffects(timeouts[n].count, timeouts[n].target, targetColor, board, dom,
                       Without(timeouts, n), tape, 0)
    /\ UNCHANGED <<currentDifficulty, currentMode, shapesQuantity, score, attemptsLeft,
                   targetShape, gameOver, timeRemaining, timerInterval, animationFrameId,
                   board, innerWidth, setupModal, gameOverScreen, endGameDialog, intervals,
                   frames, storage, tickCount, lastClick, playerName, highScores, confettiAnimationId,
                   confettiLaunches, confettiHidden>>

isCorrectMatch_KindOnly(type, color) == type = targetShape

\* The verdict of handleShapeClick on a shape of the given type and colour.
isCorrectMatch(type, color) ==
    IF currentDifficulty = "easy" THEN type = targetShape
    ELSE type = targetShape /\ color = targetColor

AttemptsAfterCorrect_AlwaysReset == maxAttempts

\* attemptsLeft after a correct click: back to maxAttempts except in hard.
AttemptsAfterCorrect ==
    IF currentDifficulty # "hard" THEN maxAttempts ELSE attemptsLeft

TimeBonus_CorrectOnly(e) == difficulty[currentDifficulty].timeBonus.correct

\* The seconds a correct click on e adds in timed mode: the colour-match
\* bonus comes on top only in easy.
TimeBonus(e) ==
    difficulty[currentDifficulty].timeBonus.correct
    + (IF currentDifficulty = "easy" /\ dom[e].color = targetColor
       THEN difficulty[currentDifficulty].timeBonus.colorMatch ELSE 0)

TimeAfterPenalty_NoFloor == timeRemaining - difficulty[currentDifficulty].timePenalty

\* The clock after an incorrect click in timed mode: the penalty stops at 1.
TimeAfterPenalty == Max(1, timeRemaining - difficulty[currentDifficulty].timePenalty)

\* One launchConfetti call: frame is the id of the pending frame that will run
\* its animateConfetti (0 for none), animationCompleted its local flag,
\* safety whether its safety timeout is still pending.
NewLaunch(id) == [frame |-> id, animationCompleted |-> FALSE, safety |-> TRUE]

\* Ids of the pending confetti frames.
ConfettiFrames(launches) == {launches[n].frame : n \in DOMAIN launches} \ {0}

\* requestAnimationFrame: an id no pending confetti frame carries.
ConfettiNewId(launches) == NewId(ConfettiFrames(launches))

\* cancelAnimationFrame(id) on the confetti frames; nothing for null.
CancelConfettiFrame(launches, id) ==
    [n \in DOMAIN launches |->
        IF id # 0 /\ launches[n].frame = id THEN [launches[n] EXCEPT !.frame = 0]
        ELSE launches[n]]

\* The calls some frame or safety timeout can still reach.
Reachable(launches) == SelectSeq(launches, LAMBDA l : l.frame # 0 \/ l.safety)

\* launchConfetti: the frame whose id is stored is cancelled, the canvas is
\* shown, a first frame is requested and its id stored, and the safety
\* timeout is set.
launchConfetti(launches, stored) ==
    LET rest == Reachable(CancelConfettiFrame(launches, stored))
        id == ConfettiNewId(rest)
    IN  [id |-> id, launches |-> Append(rest, NewLaunch(id)), hidden |-> FALSE]

\* finalizeAnimation of launch n: once per launch, the frame whose id is
\* stored is cancelled, null is stored, the canvas is cleared and hidden.
finalizeAnimation(n, launches, stored, hidden) ==
    IF launches[n].animationCompleted
    THEN [id |-> stored, launches |-> launches, hidden |-> hidden]
    ELSE [id |-> 0,
          launches |-> CancelConfettiFrame(
                           [launches EXCEPT ![n].animationCompleted = TRUE], stored),
          hidden |-> TRUE]

ConfettiUnchanged ==
    UNCHANGED <<currentDifficulty, currentMode, shapesQuantity, score, attemptsLeft,
                targetShape, targetColor, shapes, gameOver, timeRemaining, timerInterval,
                animationFrameId, board, innerWidth, setupModal, gameOverScreen,
                endGameDialog, dom, timeouts, intervals, frames, storage, roundColors,
                lastGen, frameCount, tickCount, lastClick, playerName, highScores>>

\* The pending frame of launch n runs animateConfetti; stillActive tells
\* whether a particle is on screen and the 3 s are not over.  The animation
\* goes on with a new frame whose id is stored, or ends in finalizeAnimation.
AnimateConfetti(n, stillActive) ==
    /\ n \in DOMAIN confettiLaunches
    /\ confettiLaunches[n].frame # 0
    /\ LET ran == [confettiLaunches EXCEPT ![n].frame = 0]
           res == IF stillActive /\ ~gameOver
                  THEN [id |-> ConfettiNewId(ran),
                        launches |-> [ran EXCEPT ![n].frame = ConfettiNewId(ran)],
                        hidden |-> confettiHidden]
                  ELSE finalizeAnimation(n, ran, confettiAnimationId, confettiHidden)
       IN  /\ confettiAnimationId' = res.id
           /\ confettiLaunches' = Reachable(res.launches)
           /\ confettiHidden' = res.hidden
    /\ ConfettiUnchanged

\* The safety timeout of launch n, set 3100 ms after the launch, runs
\* finalizeAnimation; the timeouts of earlier launches are due before it.
ConfettiSafetyTimeout(n) ==
    /\ n \in DOMAIN confettiLaunches
    /\ confettiLaunches[n].safety
    /\ \A m \in 1..(n - 1) : ~confettiLaunches[m].safety
    /\ LET fired == [confettiLaunches EXCEPT ![n].safety = FALSE]
           res == finalizeAnimation(n, fired, confettiAnimationId, confettiHidden)
       IN  /\ confettiAnimationId' = res.id
           /\ confettiLaunches' = Reachable(res.launches)
           /\ confettiHidden' = res.hidden
    /\ ConfettiUnchanged

\* The click handleShapeClick has just judged.
Judged(e, verdict) == [type |-> dom[e].type, color |-> dom[e].color, verdict |-> verdict]

ClickIgnored_Never == FALSE

\* The first line of handleShapeClick: a click is dropped once the game is over.
ClickIgnored == gameOver

\* handleShapeClick run for a click on the board element e.
handleShapeClick(e) ==
    /\ IF ClickIgnored
       THEN /\ lastClick' = Judged(e, "ignored")
            /\ UNCHANGED <<currentDifficulty, currentMode, shapesQuantity, score,
                           attemptsLeft, targetShape, targetColor, shapes, gameOver,
                           timeRemaining, timerInterval, animationFrameId, board,
                           innerWidth, setupModal, gameOverScreen, endGameDialog, dom,
                           timeouts, intervals, frames, storage, roundColors, lastGen,
                           frameCount, tickCount, playerName, highScores,
                           confettiAnimationId, confettiLaunches, confettiHidden>>
       ELSE IF isCorrectMatch(dom[e].type, dom[e].color)
       THEN /\ score < MaxScore
            /\ RoomFor(timeouts)
            /\ Len(confettiLaunches) < MaxLaunches
            /\ score' = score + 1
            /\ attemptsLeft' = AttemptsAfterCorrect
            /\ lastClick' = Judged(e, "correct")
            /\ LET res == launchConfetti(confettiLaunches, confettiAnimationId)
               IN  /\ confettiAnimationId' = res.id
                   /\ confettiLaunches' = res.launches
                   /\ confettiHidden' = res.hidden
            /\ timeRemaining' =
                  IF currentMode = "timed"
                  THEN timeRemaining + TimeBonus(e)
                  ELSE timeRemaining
            /\ timeouts' = Append(timeouts, NoArgs("success", successDelay))
            /\ UNCHANGED <<currentDifficulty, currentMode, shapesQuantity, targetShape,
                           targetColor, shapes, gameOver, timerInterval, animationFrameId,
                           board, innerWidth, setupModal, gameOverScreen, endGameDialog,
                           dom, intervals, frames, storage, roundColors, lastGen,
                           frameCount, tickCount, playerName, highScores>>
       ELSE /\ attemptsLeft' = attemptsLeft - 1
            /\ lastClick' = Judged(e, "incorrect")
            /\ timeRemaining' =
                  IF currentMode = "timed" THEN TimeAfterPenalty ELSE timeRemaining
            /\ IF attemptsLeft' <= 0
               THEN endGame(score, timerInterval, intervals, animationFrameId, frames)
               ELSE UNCHANGED <<gameOver, timerInterval, intervals, animationFrameId,
                                frames, gameOverScreen, storage, timeouts>>
            /\ UNCHANGED <<currentDifficulty, currentMode, shapesQuantity, score,
                           targetShape, targetColor, shapes, board, innerWidth, setupModal,
                           endGameDialog, dom, roundColors, lastGen, frameCount,
                           tickCount, playerName, highScores, confettiAnimationId,
                           confettiLaunches, confettiHidden>>

\* A click on the board element e, which no overlay of index.html covers.
HandleShapeClick(e) ==
    /\ e \in DOMAIN dom
    /\ ~setupModal /\ ~gameOverScreen /\ ~endGameDialog
    /\ handleShapeClick(e)

\* One run of the setInterval callback with the given id.
CountdownTick(id) ==
    /\ id \in intervals
    /\ tickCount' = tickCount + 1
    /\ timeRemaining' = timeRemaining - 1
    /\ IF timeRemaining' <= 0
       THEN endGame(score, timerInterval, intervals, animationFrameId, frames)
       ELSE UNCHANGED <<gameOver, timerInterval, intervals, animationFrameId, frames,
                        gameOverScreen, storage, timeouts>>
    /\ UNCHANGED <<currentDifficulty, currentMode, shapesQuantity, score, attemptsLeft,
                   targetShape, targetColor, shapes, board, innerWidth, setupModal,
                   endGameDialog, dom, roundColors, lastGen, frameCount,
                   lastClick, playerName, highScores, confettiAnimationId,
                   confettiLaunches, confettiHidden>>

\* A countdown tick of a game in which fewer than MaxTicks have run.
TimerTick(id) == tickCount < MaxTicks /\ CountdownTick(id)

\* One run of the requestAnimationFrame callback with the given id.
MoveShapesFrame(id) ==
    /\ id \in frames
    /\ frameCount < MaxFrames
    /\ frameCount' = frameCount + 1
    /\ LET rest == frames \ {id}
       IN  IF gameOver \/ board[1] <= 0 \/ board[2] <= 0 \/ Len(shapes) = 0
           THEN /\ frames' = Cancelled(animationFrameId, rest)
                /\ animationFrameId' = 0
                /\ UNCHANGED shapes
           ELSE /\ shapes' = MoveShapes(shapes, Px(board[1]), Px(board[2]))
                /\ animationFrameId' = NewId(rest)
                /\ frames' = rest \cup {NewId(rest)}
    /\ UNCHANGED <<currentDifficulty, currentMode, shapesQuantity, score, attemptsLeft,
                   targetShape, targetColor, gameOver, timeRemaining, timerInterval, board,
                   innerWidth, setupModal, gameOverScreen, endGameDialog, dom, timeouts,
                   intervals, storage, roundColors, lastGen, tickCount, lastClick, playerName, highScores, confettiAnimationId,
                   confettiLaunches, confettiHidden>>

-----------------------------------------------------------------------------
(* events.js: the quit dialog and the resize handler                        *)

ShowEndGameConfirmation_KeepsTimer ==
    /\ ~setupModal /\ ~gameOverScreen /\ ~endGameDialog
    /\ endGameDialog' = TRUE
    /\ animationFrameId' = 0
    /\ frames' = Cancelled(animationFrameId, frames)
    /\ UNCHANGED <<currentDifficulty, currentMode, shapesQuantity, score, attemptsLeft,
                   targetShape, targetColor, shapes, gameOver, timeRemaining, board,
                   innerWidth, setupModal, gameOverScreen, dom, timeouts, storage,
                   roundColors, lastGen, frameCount, tickCount, lastClick, playerName,
                   highScores, confettiAnimationId, confettiLaunches, confettiHidden, timerInterval, intervals>>

ShowEndGameConfirmation_ForgetsTimer ==
    /\ ~setupModal /\ ~gameOverScreen /\ ~endGameDialog
    /\ endGameDialog' = TRUE
    /\ timerInterval' = 0
    /\ animationFrameId' = 0
    /\ frames' = Cancelled(animationFrameId, frames)
    /\ UNCHANGED <<currentDifficulty, currentMode, shapesQuantity, score, attemptsLeft,
                   targetShape, targetColor, shapes, gameOver, timeRemaining, board,
                   innerWidth, setupModal, gameOverScreen, dom, timeouts, storage,
                   roundColors, lastGen, frameCount, tickCount, lastClick, playerName,
                   highScores, confettiAnimationId, confettiLaunches, confettiHidden, intervals>>

\* The quit button, which no overlay of index.html covers: the countdown is
\* stopped in timed mode, the motion always.
ShowEndGameConfirmation ==
    /\ ~setupModal /\ ~gameOverScreen /\ ~endGameDialog
    /\ endGameDialog' = TRUE
    /\ IF currentMode = "timed"
       THEN /\ timerInterval' = 0
            /\ intervals' = Cancelled(timerInterval, intervals)
       ELSE UNCHANGED <<timerInterval, intervals>>
    /\ animationFrameId' = 0
    /\ frames' = Cancelled(animationFrameId, frames)
    /\ UNCHANGED <<currentDifficulty, currentMode, shapesQuantity, score, attemptsLeft,
                   targetShape, targetColor, shapes, gameOver, timeRemaining, board,
                   innerWidth, setupModal, gameOverScreen, dom, timeouts, storage,
                   roundColors, lastGen, frameCount, tickCount, lastClick, playerName, highScores, confettiAnimationId,
                   confettiLaunches, confettiHidden>>

\* hideEndGameConfirmation: the timer and frame ids and live callbacks after it.
hideEndGameConfirmation ==
    LET timer == IF ~gameOver /\ currentMode = "timed"
                 THEN startTimer(timerInterval, intervals)
                 ELSE [id |-> timerInterval, live |-> intervals]
        motion == IF ~gameOver /\ currentDifficulty = "hard"
                  THEN startMovingShapes(animationFrameId, frames, gameOver, shapes)
                  ELSE [id |-> animationFrameId, live |-> frames]
    IN  [timer |-> timer, motion |-> motion]

\* The cancel button of the quit dialog.
CancelEndGame ==
    /\ endGameDialog
    /\ endGameDialog' = FALSE
    /\ timerInterval' = hideEndGameConfirmation.timer.id
    /\ intervals' = hideEndGameConfirmation.timer.live
    /\ animationFrameId' = hideEndGameConfirmation.motion.id
    /\ frames' = hideEndGameConfirmation.motion.live
    /\ UNCHANGED <<currentDifficulty, currentMode, shapesQuantity, score, attemptsLeft,
                   targetShape, targetColor, shapes, gameOver, timeRemaining, board,
                   innerWidth, setupModal, gameOverScreen, dom, timeouts, storage,
                   roundColors, lastGen, frameCount, tickCount, lastClick, playerName, highScores, confettiAnimationId,
                   confettiLaunches, confettiHidden>>

\* The confirm button of the quit dialog: hideEndGameConfirmation, then endGame.
ConfirmEndGame ==
    /\ endGameDialog
    /\ endGameDialog' = FALSE
    /\ endGame(score, hideEndGameConfirmation.timer.id, hideEndGameConfirmation.timer.live,
               hideEndGameConfirmation.motion.id, hideEndGameConfirmation.motion.live)
    /\ UNCHANGED <<currentDifficulty, currentMode, shapesQuantity, score, attemptsLeft,
                   targetShape, targetColor, shapes, timeRemaining, board, innerWidth,
                   setupModal, dom, roundColors, lastGen, frameCount, tickCount, lastClick, playerName, highScores, confettiAnimationId,
                   confettiLaunches, confettiHidden>>

\* A resize event after which the board measures b: a game with shapes on
\* the board gets them generated again for the same target.
HandleWindowResize(b, tape) ==
    /\ b # board
    /\ board' = b
    /\ IF ~gameOver /\ Len(shapes) > 0
       THEN GenerateEffects(shapesQuantity, targetShape, targetColor, b, <<>>, timeouts,
                            tape, 0)
       ELSE UNCHANGED <<targetColor, shapes, dom, timeouts, roundColors, lastGen,
                        frameCount>>
    /\ UNCHANGED <<currentDifficulty, currentMode, shapesQuantity, score, attemptsLeft,
                   targetShape, gameOver, timeRemaining, timerInterval, animationFrameId,
                   innerWidth, setupModal, gameOverScreen, endGameDialog, intervals, frames,
                   storage, tickCount, lastClick, playerName, highScores, confettiAnimationId,
                   confettiLaunches, confettiHidden>>

-----------------------------------------------------------------------------
(* Spec: the page from its load on.  The board measures 0 x 0 while its     *)
(* container is not laid out, and GameBoards[2] once it is.                 *)

GameBoards == {<<0, 0>>, <<320, 240>>}

\* The Math.random() tapes the generations of Spec draw from.
GameTapes == {<<450, 999, 0>>, <<999, 0, 450>>}

Init == \E b \in GameBoards : PageLoaded(b, EmptyStorage)

\* High scores in localStorage.
StoredScores == Len(storage.classic) + Len(storage.timed)

Next ==
    \/ StoredScores < MaxSaved /\ \E d \in Difficulties : ClickDifficulty(d)
    \/ StoredScores < MaxSaved /\ \E m \in Modes : ClickMode(m)
    \/ StoredScores < MaxSaved /\ StartGameFromSetup
    \/ StoredScores < MaxSaved /\ RestartGame
    \/ ShowSetupModal
    \/ \E n \in DOMAIN timeouts, tape \in GameTapes : FireStartRound(n, tape)
    \/ \E n \in DOMAIN timeouts, tape \in GameTapes : FireSuccess(n, tape)
    \/ \E n \in DOMAIN timeouts, tape \in GameTapes : FireRetry(n, tape)
    \/ \E e \in DOMAIN dom : HandleShapeClick(e)
    \/ \E id \in intervals : TimerTick(id)
    \/ \E id \in frames : MoveShapesFrame(id)
    \/ ShowEndGameConfirmation
    \/ CancelEndGame
    \/ ConfirmEndGame
    \/ \E b \in GameBoards, tape \in GameTapes : HandleWindowResize(b, tape)

Spec == Init /\ [][Next]_vars

-----------------------------------------------------------------------------
(* Claims about clicks, checked under Spec                                  *)

\* The rule for a correct click on board element e: the target kind in easy,
\* the target kind and the target colour in medium and hard.
MatchesTarget(e) ==
    IF currentDifficulty = "easy"
    THEN dom[e].type = targetShape
    ELSE dom[e].type = targetShape /\ dom[e].color = targetColor

\* This step is handleShapeClick judging a click on element e in an active game.
JudgedClick(e) == ~gameOver /\ HandleShapeClick(e)

\* C2: in an active game handleShapeClick counts the clicked shape as correct
\* (the score goes up by one) exactly when its type is the target kind in
\* easy, or its type and colour are the target's in medium and hard; a shape
\* of the target kind with another colour costs an attempt in medium and hard.
C2_ClickVerdict ==
    [][\A e \in DOMAIN dom :
          JudgedClick(e) =>
              /\ (score' = score + 1) <=> MatchesTarget(e)
              /\ (lastClick'.verdict = "correct") <=> MatchesTarget(e)
              /\ ~MatchesTarget(e) => (score' = score /\ attemptsLeft' = attemptsLeft - 1)]_vars

\* A medium round in which a click on a shape of the target kind with another
\* colour was judged incorrect and cost the first attempt.
C2_Witness_KindWithoutColour ==
    /\ currentDifficulty = "medium"
    /\ lastClick.verdict = "incorrect"
    /\ lastClick.type = targetShape
    /\ lastClick.color # targetColor
    /\ attemptsLeft = maxAttempts - 1

\* A game is on: the setup screen is closed.
InGame == ~setupModal

\* C10: a correct click sets attemptsLeft back to maxAttempts in easy and
\* medium and leaves it unchanged in hard, where it never increases during a
\* game; an incorrect click lowers it by exactly 1 and ends the game exactly
\* when it reaches 0; attemptsLeft stays within 0..maxAttempts during a game.
C10_AttemptsLeft ==
    /\ [](InGame => (attemptsLeft \in 0..3 /\ (attemptsLeft = 0 => gameOver)))
    /\ [][\A e \in DOMAIN dom :
             JudgedClick(e) =>
                 IF MatchesTarget(e)
                 THEN /\ currentDifficulty \in {"easy", "medium"} => attemptsLeft' = 3
                      /\ currentDifficulty = "hard" => attemptsLeft' = attemptsLeft
                      /\ ~gameOver'
                 ELSE /\ attemptsLeft' = attemptsLeft - 1
                      /\ gameOver' <=> (attemptsLeft' = 0)]_vars
    /\ [][(currentDifficulty = "hard" /\ InGame /\ ~gameOverScreen)
             => attemptsLeft' <= attemptsLeft]_vars

\* A hard game in which a correct click followed an incorrect one and left
\* the attempts at 2.
C10_Witness_HardKeepsAttempts ==
    /\ currentDifficulty = "hard"
    /\ lastClick.verdict = "correct"
    /\ score > 0
    /\ attemptsLeft = maxAttempts - 1

C18_PausedWhileDialogShown ==
    [][(endGameDialog /\ endGameDialog')
          => UNCHANGED <<score, attemptsLeft, timeRemaining, targetShape, targetColor,
                         shapes>>]_vars

\* C20: the success timeout of a correct click starts a round only while
\* the game of that click is active: once that game has ended, the callback
\* leaves the target, the shapes and their elements as they are, whether
\* gameOver is still true or a later reset or start has made it false again.
C20_StaleTimeoutStartsNoRound ==
    [][\A n \in DOMAIN timeouts :
          (/\ timeouts[n].kind = "success"
           /\ timeouts[n].stale
           /\ \E tape \in GameTapes : FireSuccess(n, tape))
          => UNCHANGED <<targetShape, targetColor, shapes, dom>>]_vars

\* C17: the resetGameState run by the back-to-menu button leaves
\* currentDifficulty, currentMode, shapesQuantity, playerName and highScores
\* as they are, and sets score and attemptsLeft to 0, the target shape and
\* colour to null, shapes to empty, gameOver to false, timeRemaining to 0 and
\* the timer, animation and confetti ids to null.
C17_ResetGameState ==
    [][(gameOverScreen /\ setupModal')
          => /\ UNCHANGED <<currentDifficulty, currentMode, shapesQuantity, playerName,
                            highScores>>
             /\ score' = 0 /\ attemptsLeft' = 0
             /\ targetShape' = Null /\ targetColor' = Null
             /\ shapes' = <<>>
             /\ gameOver' = FALSE
             /\ timeRemaining' = 0
             /\ timerInterval' = 0 /\ animationFrameId' = 0 /\ confettiAnimationId' = 0]_vars

\* C17 witness: back on the setup screen after a timed game in hard that
\* scored, with the player's name and settings kept and the game's fields
\* cleared.
C17_Witness_BackToMenu ==
    /\ setupModal
    /\ playerName = TypedName
    /\ currentDifficulty = "hard"
    /\ currentMode = "timed"
    /\ shapesQuantity = 20
    /\ storage.timed # <<>>
    /\ score = 0
    /\ shapes = <<>>
    /\ ~gameOver
    /\ confettiAnimationId = 0

\* C22: in an active game with shapes on the board, the isMatch flag of
\* every shape is the verdict handleShapeClick gives for it against the
\* current target, and at least one shape carries it; also after a resize
\* and after the retry of a generation on a board too small.
C22_FlagsAgreeWithVerdict ==
    (InGame /\ ~gameOver /\ shapes # <<>>)
        => /\ \A n \in DOMAIN shapes :
                 shapes[n].isMatch = isCorrectMatch(shapes[n].type, shapes[n].color)
           /\ \E n \in DOMAIN shapes : shapes[n].isMatch

\* C24: at most one requestAnimationFrame callback of the motion loop is
\* pending at any time, and gameState.animationFrameId is its id.
C24_OneFramePending ==
    /\ Cardinality(frames) <= 1
    /\ frames # {} => frames = {animationFrameId}

\* A hard game in its second round: startNewRound ran while the loop of the
\* first round was pending, and one frame is pending.
C24_Witness_SecondRoundMoving ==
    /\ InGame /\ ~gameOver /\ currentDifficulty = "hard" /\ score = 1
    /\ lastClick = NoClick /\ shapes # <<>>
    /\ animationFrameId # 0 /\ frames = {animationFrameId}

\* C25: at most one setInterval countdown is running at any time, and
\* gameState.timerInterval is its id.
C25_OneIntervalRunning ==
    /\ Cardinality(intervals) <= 1
    /\ intervals # {} => intervals = {timerInterval}

\* A timed game whose countdown has ticked, was stopped by the quit dialog or
\* not, and runs on one interval.
C25_Witness_TickedOnce ==
    /\ InGame /\ ~gameOver /\ ~endGameDialog /\ currentMode = "timed"
    /\ tickCount = 1 /\ frameCount = 0 /\ shapes # <<>>
    /\ timerInterval # 0 /\ intervals = {timerInterval}

\* C26: in a hard game that is not over, with the quit dialog closed and
\* shapes on the board, a frame of the motion loop is pending.
C26_HardShapesKeepMoving ==
    (InGame /\ ~gameOver /\ ~endGameDialog /\ currentDifficulty = "hard" /\ shapes # <<>>)
        => frames # {}

-----------------------------------------------------------------------------
(* SpecBonus: games of both modes and every difficulty on a laid-out board, *)
(* with a tape on which an easy round holds a shape of the target's kind    *)
(* and colour.                                                              *)

BonusBoard == <<320, 240>>
BonusTapes == {<<0, 999, 999>>, <<450, 999, 0>>}

InitBonus == PageLoaded(BonusBoard, EmptyStorage)

NextBonus ==
    \/ \E d \in Difficulties : ClickDifficulty(d)
    \/ \E m \in Modes : ClickMode(m)
    \/ StartGameFromSetup
    \/ \E n \in DOMAIN timeouts, tape \in BonusTapes : FireStartRound(n, tape)
    \/ \E n \in DOMAIN timeouts, tape \in BonusTapes : FireSuccess(n, tape)
    \/ \E e \in DOMAIN dom : HandleShapeClick(e)
    \/ \E id \in intervals : TimerTick(id)

SpecBonus == InitBonus /\ [][NextBonus]_vars

\* The clicked element has the target's kind and the target's colour.
PerfectMatch(e) == dom[e].type = targetShape /\ dom[e].color = targetColor

C12_ColourBonusEverywhere ==
    [][\A e \in DOMAIN dom :
          (JudgedClick(e) /\ currentMode = "timed" /\ PerfectMatch(e)) =>
              timeRemaining' = timeRemaining
                  + difficulty[currentDifficulty].timeBonus.correct
                  + difficulty[currentDifficulty].timeBonus.colorMatch]_vars

\* The round on the board is won: the success timeout of its correct click
\* is pending.
RoundWon == \E n \in DOMAIN timeouts : timeouts[n].kind = "success" /\ ~timeouts[n].stale

\* C21: a round awards at most one point: once it is won, a click on a shape
\* still on the board leaves score, attemptsLeft and timeRemaining as they
\* are and schedules nothing.
C21_OnePointPerRound ==
    [][\A e \in DOMAIN dom :
          (RoundWon /\ HandleShapeClick(e))
          => UNCHANGED <<score, attemptsLeft, timeRemaining, timeouts, gameOver>>]_vars

-----------------------------------------------------------------------------
(* SpecTimer: timed games on one board in which the countdown runs as long  *)
(* as its interval lives, so that it can reach 0.                           *)

TimerTape == <<0, 999, 999>>

InitTimer == PageLoaded(BonusBoard, EmptyStorage)

NextTimer ==
    \/ \E d \in Difficulties : ClickDifficulty(d)
    \/ currentMode = "classic" /\ ClickMode("timed")
    \/ StoredScores < MaxSaved /\ StartGameFromSetup
    \/ StoredScores < MaxSaved /\ RestartGame
    \/ ShowSetupModal
    \/ \E n \in DOMAIN timeouts : FireStartRound(n, TimerTape)
    \/ \E n \in DOMAIN timeouts : FireSuccess(n, TimerTape)
    \/ \E e \in DOMAIN dom : HandleShapeClick(e)
    \/ \E id \in intervals : CountdownTick(id)
    \/ ShowEndGameConfirmation
    \/ CancelEndGame
    \/ ConfirmEndGame

SpecTimer == InitTimer /\ [][NextTimer]_vars

\* This step is a run of the countdown callback.
Ticked == tickCount' = tickCount + 1

\* C13: in a timed game every countdown tick lowers timeRemaining by exactly
\* 1; the tick that brings it to 0 ends the game and leaves no countdown
\* interval alive, any other tick leaves the game and the interval as they
\* were; timeRemaining is never negative, and it is at least 1 whenever a
\* countdown interval is alive.
C13_Countdown ==
    /\ [](timeRemaining >= 0)
    /\ [](intervals # {} => (currentMode = "timed" /\ timeRemaining >= 1))
    /\ [][Ticked =>
            /\ currentMode = "timed"
            /\ timeRemaining' = timeRemaining - 1
            /\ IF timeRemaining' = 0
               THEN gameOver' /\ gameOverScreen' /\ intervals' = {} /\ timerInterval' = 0
               ELSE UNCHANGED <<gameOver, gameOverScreen, intervals, timerInterval>>]_vars

\* C13 witness: a timed game that the countdown has ended at 0.
C13_Witness_TimeUp ==
    /\ gameOver
    /\ currentMode = "timed"
    /\ timeRemaining = 0
    /\ tickCount > 0
    /\ intervals = {}
    /\ attemptsLeft > 0

\* C29: an incorrect click in timed mode sets timeRemaining to
\* max(1, timeRemaining - timePenalty) of the current difficulty, so the clock
\* stays at 1 or more, and the click ends the game only when it uses up the
\* last attempt.
C29_PenaltyStopsAtOne ==
    [][\A e \in DOMAIN dom :
          (currentMode = "timed" /\ JudgedClick(e) /\ ~MatchesTarget(e))
          => /\ timeRemaining' =
                   Max(1, timeRemaining - difficulty[currentDifficulty].timePenalty)
             /\ timeRemaining' >= 1
             /\ (attemptsLeft > 1 => ~gameOver')]_vars

\* C29 witness: a hard timed game without a correct click, 45 s at its start,
\* whose one incorrect click came when 7 s or less were left: 38 ticks and
\* the penalty of 7 leave the clock at 1, and the game goes on.
C29_Witness_PenaltyAtFloor ==
    /\ currentMode = "timed"
    /\ currentDifficulty = "hard"
    /\ ~gameOver
    /\ score = 0
    /\ attemptsLeft = maxAttempts - 1
    /\ lastClick.verdict = "incorrect"
    /\ tickCount = 38
    /\ timeRemaining = 1

\* This step runs endGame: the quit dialog is confirmed, a countdown tick
\* reaches 0, or a judged click uses up the last attempt.
EndGameRuns ==
    \/ ConfirmEndGame
    \/ \E id \in intervals : CountdownTick(id) /\ timeRemaining' <= 0
    \/ \E e \in DOMAIN dom : JudgedClick(e) /\ attemptsLeft' < attemptsLeft /\ attemptsLeft' <= 0

\* C23: each game ends at most once: endGame runs only in a game that is not
\* over yet, and the stored high scores change only in such a step, by one
\* entry, whichever of the attempts, the countdown and the quit dialog ends
\* the game.
C23_EndsAtMostOnce ==
    /\ [][EndGameRuns => ~gameOver]_vars
    /\ [][storage' # storage
            => (~gameOver /\ gameOver' /\ StoredScores' = StoredScores + 1)]_vars

\* C23 witness: a timed game that scored, ended by its last attempt with one
\* second left on the clock, and stored once.
C23_Witness_StoredOnce ==
    /\ gameOver
    /\ currentMode = "timed"
    /\ score = 1
    /\ attemptsLeft = 0
    /\ timeRemaining = 1
    /\ Len(storage.timed) = 1

-----------------------------------------------------------------------------
(* SpecOver: classic games in which a click event on a shape reaches        *)
(* handleShapeClick also while the game-over screen is shown.               *)

NextOver ==
    \/ \E d \in Difficulties : ClickDifficulty(d)
    \/ StoredScores < MaxSaved /\ StartGameFromSetup
    \/ StoredScores < MaxSaved /\ RestartGame
    \/ ShowSetupModal
    \/ \E n \in DOMAIN timeouts, tape \in BonusTapes : FireStartRound(n, tape)
    \/ \E n \in DOMAIN timeouts, tape \in BonusTapes : FireSuccess(n, tape)
    \/ \E e \in DOMAIN dom : ~setupModal /\ handleShapeClick(e)

SpecOver == InitBonus /\ [][NextOver]_vars

\* C14: once the game is over, handleShapeClick run for a click on any shape
\* leaves score, attemptsLeft, timeRemaining, the target, the shapes and
\* their elements as they are and schedules nothing.
C14_ClickAfterGameOver ==
    [][\A e \in DOMAIN dom :
          (gameOver /\ handleShapeClick(e))
          => UNCHANGED <<score, attemptsLeft, timeRemaining, targetShape, targetColor,
                         shapes, dom, timeouts, gameOver, storage>>]_vars

\* C14 witness: a click made on a shape of the target kind after the game
\* ended was dropped.
C14_Witness_DroppedClick ==
    /\ gameOver
    /\ lastClick.verdict = "ignored"
    /\ lastClick.type = targetShape
    /\ score < MaxScore
    /\ timeouts = <<>>

-----------------------------------------------------------------------------
(* Claims about boards below 100 x 100, checked under Spec                  *)

\* A retry of generateGameShapes is pending.
RetryPending == \E n \in DOMAIN timeouts : timeouts[n].kind = "retry"

\* C8: a generateGameShapes call that finds the board below 100 in width or
\* height places nothing: gameState.shapes is empty when it returns and it
\* adds no element to the board; shapes appear only from a later generation
\* that observes a board of at least 100 x 100.
C8_TooSmallPlacesNothing ==
    /\ [](lastGen.end = "retry" => shapes = <<>>)
    /\ [][lastGen'.end = "retry" => (dom' = dom \/ dom' = <<>>)]_vars
    /\ [][(shapes = <<>> /\ shapes' # <<>>)
             => (lastGen'.end = "done" /\ board'[1] >= 100 /\ board'[2] >= 100)]_vars

\* A round asked for shapes on the 0 x 0 board: nothing is placed and the
\* retry is pending.
C8_Witness_RetryPending ==
    /\ lastGen.end = "retry"
    /\ board = <<0, 0>>
    /\ targetShape # Null
    /\ shapes = <<>> /\ dom = <<>>
    /\ RetryPending

-----------------------------------------------------------------------------
(* SpecSetup: the setup screen's difficulty buttons and +/- buttons, the    *)
(* start button and the first round, on boards of at least 100 x 100.       *)

SetupBoards == {<<400, 300>>, <<800, 600>>}

InitSetup == \E b \in SetupBoards : PageLoaded(b, EmptyStorage)

NextSetup ==
    \/ \E d \in Difficulties : ClickDifficulty(d)
    \/ ClickDecrease
    \/ ClickIncrease
    \/ StartGameFromSetup
    \/ \E n \in DOMAIN timeouts, tape \in GameTapes : FireStartRound(n, tape)

SpecSetup == InitSetup /\ [][NextSetup]_vars

\* C3: the number of shapes a round places lies within the shapesCount range
\* of its difficulty (easy 4-8, medium 6-12, hard 10-18), whatever clicks on
\* the setup screen produced the requested count and whatever the board of
\* at least 100 x 100.
C3_CountWithinRange ==
    GenDone =>
        /\ Len(shapes) >= difficulty[currentDifficulty].shapesCount.min
        /\ Len(shapes) <= difficulty[currentDifficulty].shapesCount.max

-----------------------------------------------------------------------------
(* SpecMotion: a round and its animation frames on a small and on a roomy   *)
(* board, with resizes between the two, from the page load on.              *)

MotionBoards == {<<100, 100>>, <<400, 300>>}

InitMotion == \E b \in MotionBoards : PageLoaded(b, EmptyStorage)

NextMotion ==
    \/ \E d \in Difficulties : ClickDifficulty(d)
    \/ StartGameFromSetup
    \/ \E n \in DOMAIN timeouts, tape \in Tapes : FireStartRound(n, tape)
    \/ \E id \in frames : MoveShapesFrame(id)
    \/ \E b \in MotionBoards, tape \in Tapes : HandleWindowResize(b, tape)

SpecMotion == InitMotion /\ [][NextMotion]_vars

\* This step is a frame of moveShapes that moves the shapes.
MovingFrame ==
    /\ ~gameOver /\ Len(shapes) > 0 /\ board[1] > 0 /\ board[2] > 0
    /\ \E id \in frames : MoveShapesFrame(id)

\* The frame after the one that left the shape as sh moves it by its velocity
\* and reflects neither component.
NextFrameMovesInward(sh, bw, bh) ==
    LET nxt == MoveShape(sh, bw, bh)
    IN  /\ nxt.x = sh.x + sh.vx /\ nxt.vx = sh.vx
        /\ nxt.y = sh.y + sh.vy /\ nxt.vy = sh.vy

\* The board of bw x bh units holds the footprint of every shape of s.
BoardHoldsFootprints(s, bw, bh) ==
    \A n \in DOMAIN s : ShapeWidth(s[n]) <= bw /\ ShapeHeight(s[n]) <= bh

ShapesInside(s, bw, bh) ==
    \A n \in DOMAIN s :
        /\ 0 <= s[n].x /\ s[n].x <= bw - ShapeWidth(s[n])
        /\ 0 <= s[n].y /\ s[n].y <= bh - ShapeHeight(s[n])

\* C28: on a board that holds every shape's footprint, each frame of
\* moveShapes leaves every shape with 0 <= x <= boardWidth - width and
\* 0 <= y <= boardHeight - height, whatever the board measured before.
C28_FrameKeepsShapesInside ==
    [][(MovingFrame /\ BoardHoldsFootprints(shapes, Px(board[1]), Px(board[2])))
          => ShapesInside(shapes', Px(board[1]), Px(board[2]))]_vars

\* After a frame on a board that holds every footprint, a shape lies against
\* the right or the bottom boundary.
C28_Witness_HeldAtBoundary ==
    /\ frameCount >= 1 /\ frames # {} /\ shapes # <<>>
    /\ BoardHoldsFootprints(shapes, Px(board[1]), Px(board[2]))
    /\ ShapesInside(shapes, Px(board[1]), Px(board[2]))
    /\ \E n \in DOMAIN shapes :
          \/ shapes[n].x = Px(board[1]) - ShapeWidth(shapes[n])
          \/ shapes[n].y = Px(board[2]) - ShapeHeight(shapes[n])

-----------------------------------------------------------------------------
(* SpecScores: easy games in both modes and page reloads over high scores   *)
(* that earlier sessions, some of them of the version with the single       *)
(* shapeGameHighScores key, left in localStorage.                           *)

Entry(sc, mode) == [score |-> sc, difficulty |-> "hard", mode |-> mode]

\* A full classic list.
TenClassic ==
    <<Entry(3, "classic"), Entry(3, "classic"), Entry(2, "classic"), Entry(2, "classic"),
      Entry(2, "classic"), Entry(1, "classic"), Entry(1, "classic"), Entry(1, "classic"),
      Entry(1, "classic"), Entry(1, "classic")>>

\* What localStorage may hold when the page is opened.
ScoreStores ==
    [classic : {<<>>, TenClassic},
     timed : {<<>>, <<Entry(2, "timed")>>},
     legacy : {<<>>, <<Entry(1, "timed")>>, <<Entry(2, "classic"), Entry(1, "timed")>>}]

ScoreBoard == <<320, 240>>

InitScores == \E s \in ScoreStores : PageLoaded(ScoreBoard, loadHighScores(s, "classic"))

\* Entries of this session's easy games in the stored lists.
SessionScores ==
    Len(SelectSeq(storage.classic \o storage.timed, LAMBDA e : e.difficulty = "easy"))

NextScores ==
    \/ InitGame
    \/ \E m \in Modes : ClickMode(m)
    \/ SessionScores < MaxSaved /\ StartGameFromSetup
    \/ SessionScores < MaxSaved /\ RestartGame
    \/ ShowSetupModal
    \/ \E n \in DOMAIN timeouts, tape \in GameTapes : FireStartRound(n, tape)
    \/ \E n \in DOMAIN timeouts, tape \in GameTapes : FireSuccess(n, tape)
    \/ \E e \in DOMAIN dom : HandleShapeClick(e)

SpecScores == InitScores /\ [][NextScores]_vars

\* The list is sorted by score, highest first.
SortedDesc(list) == \A i \in 1..(Len(list) - 1) : list[i].score >= list[i + 1].score

\* C9: every write to a per-mode high-score list, by the save at game end or
\* by the migration of legacy scores, leaves the list sorted by score in
\* descending order with at most 10 entries, and a write for one mode leaves
\* the other mode's list unchanged.
C9_ScoreWrites ==
    [][storage' # storage =>
          /\ \A m \in Modes : SortedDesc(storage'[m]) /\ Len(storage'[m]) <= 10
          /\ \A m \in Modes : m # currentMode' => storage'[m] = storage[m]]_vars

-----------------------------------------------------------------------------
(* SpecConfetti: easy classic games on a laid-out board together with the   *)
(* frames and safety timeouts of the confetti launched by correct clicks.   *)

NextConfetti ==
    \/ StoredScores < MaxSaved /\ StartGameFromSetup
    \/ ShowSetupModal
    \/ \E n \in DOMAIN timeouts : FireStartRound(n, TimerTape)
    \/ \E n \in DOMAIN timeouts : FireSuccess(n, TimerTape)
    \/ \E e \in DOMAIN dom : HandleShapeClick(e)
    \/ ShowEndGameConfirmation
    \/ ConfirmEndGame
    \/ \E n \in DOMAIN confettiLaunches, act \in BOOLEAN : AnimateConfetti(n, act)
    \/ \E n \in DOMAIN confettiLaunches : ConfettiSafetyTimeout(n)

SpecConfetti == InitBonus /\ [][NextConfetti]_vars

\* This step runs the cleanup of launch n for the first time: its safety
\* timeout fires, or its frame finds the animation or the game over.
CleanupRuns(n) ==
    /\ ~confettiLaunches[n].animationCompleted
    /\ \/ ConfettiSafetyTimeout(n)
       \/ AnimateConfetti(n, FALSE)
       \/ gameOver /\ AnimateConfetti(n, TRUE)

\* Launch m is running: its next frame is pending and it was not cleaned up.
StillRunning(m) ==
    confettiLaunches[m].frame # 0 /\ ~confettiLaunches[m].animationCompleted

\* C30: the cleanup of a confetti launch, at the end of its animation or by
\* its safety timeout, leaves the pending frame of every later launch that
\* is still running in place and does not hide the canvas under it.
C30_CleanupSparesLaterLaunch ==
    [][\A n \in DOMAIN confettiLaunches :
          \A m \in DOMAIN confettiLaunches :
              (m > n /\ StillRunning(m) /\ CleanupRuns(n))
                  => /\ confettiLaunches[m].frame \in ConfettiFrames(confettiLaunches')
                     /\ confettiHidden' = confettiHidden]_vars

====
